---- MODULE Spec2Model ----
(***************************************************************************)
(* Model of the inspection persistence component (src/database.py), the    *)
(* photo files it refers to (src/photo_handler.py) and the form that calls *)
(* it (src/main.py).                                                       *)
(*                                                                         *)
(* The SQLite store is modelled by its two tables, kept as sequences of    *)
(* rows in rowid order, and by the sqlite_sequence counters that           *)
(* AUTOINCREMENT maintains.  Every handler is one atomic action: the       *)
(* program is single-threaded and each handler ends in commit or rollback. *)
(***************************************************************************)
EXTENDS Integers, Sequences, FiniteSets, TLC

VARIABLES inspecoes, historico_alteracoes, seqs, files, clock, last

vars == <<inspecoes, historico_alteracoes, seqs, files, clock, last>>

----------------------------------------------------------------------------
(* Bounds                                                                  *)

\* The clock is logical: it counts the datetime.now() samples that end up
\* stored (in a row or in a file name); a call that stores nothing leaves
\* it alone.  MaxClock bounds the samples of one behaviour.
MaxClock == 5

\* rows the change log may hold
MaxLog == 13

\* samples of one behaviour when statements may raise
MaxFaultyClock == 3

\* clock samples that fall into one wall-clock second
TicksPerSecond == 6

----------------------------------------------------------------------------
(* Values: Python str / None on the way in, SQLite TEXT / NULL / INTEGER   *)
(* on the way out.                                                         *)

Text(s) == [k |-> "text", s |-> s]

Num(s) == [k |-> "int", s |-> s]

NULL == [k |-> "null", s |-> ""]

\* Python str(v): None prints as 'None', an int prints its digits
Str(v) == IF v.k = "null" THEN "None" ELSE v.s

\* texts of the model that SQLite reads as a well-formed integer literal
NumericLiterals == {"2024"}

\* data columns of table inspecoes, in declaration order
DataCols ==
  << "plataforma", "modulo", "setor", "tipo_equipamento", "tag", "defeito",
     "causa", "categoria_rti", "recomendacao", "ultima_inspecao",
     "data_inspecao", "tipo_dano", "observacoes", "foto_path" >>

DataColSet == { DataCols[i] : i \in 1..Len(DataCols) }

\* columns declared NOT NULL
NotNullCols == DataColSet \ {"observacoes", "foto_path"}

\* columns declared DATE: SQLite gives them NUMERIC affinity
DateCols == {"ultima_inspecao", "data_inspecao"}

\* required fields of the data model, by column
RequiredCols == NotNullCols

\* the dict key that save_inspection / update_inspection read for a column
KeyOf(col) ==
  CASE col = "tipo_equipamento" -> "tipoEquipamento"
    [] col = "categoria_rti"    -> "categoriaRTI"
    [] col = "ultima_inspecao"  -> "ultima"
    [] col = "data_inspecao"    -> "data"
    [] col = "tipo_dano"        -> "tipoDano"
    [] OTHER                    -> col

\* Python dict.get(key, '')
Dget(d, key) == IF key \in DOMAIN d THEN d[key] ELSE Text("")

\* column affinity applied by SQLite when a value is stored
Affinity(col, v) ==
  IF col \in DateCols /\ v.k = "text" /\ v.s \in NumericLiterals
    THEN Num(v.s)
    ELSE IF col \notin DateCols /\ v.k = "int" THEN Text(v.s) ELSE v

\* the parameter tuple with two positions exchanged
BindRowSwapped(data) ==
  [c \in DataColSet |->
     Affinity(c, Dget(data, KeyOf(IF c = "modulo" THEN "setor"
                                  ELSE IF c = "setor" THEN "modulo" ELSE c)))]

\* the parameter tuple of the INSERT / UPDATE, as stored by column
BindRow(data) == [c \in DataColSet |-> Affinity(c, Dget(data, KeyOf(c)))]

\* NOT NULL constraints of table inspecoes
NotNullOK(vals) == \A c \in NotNullCols : vals[c] # NULL

----------------------------------------------------------------------------
(* Photo files                                                             *)

PhotosDir == "fotos_inspecoes/"

\* names (without extension) of the source images a user may pick
SrcNames == {"foto"}

\* strftime('%Y%m%d_%H%M%S'): the clock truncated to whole seconds
Stamp(t) == ToString(t \div TicksPerSecond)

\* f"{original_name}_{timestamp}.jpg" under photos_dir
PhotoPath(name, t) == PhotosDir \o name \o "_" \o Stamp(t) \o ".jpg"

----------------------------------------------------------------------------
(* Inputs                                                                  *)

Keys == { KeyOf(c) : c \in DataColSet }

Complete ==
  [ key \in Keys |->
      CASE key = "plataforma"      -> Text("P-1")
        [] key = "modulo"          -> Text("M01")
        [] key = "setor"           -> Text("S01")
        [] key = "tipoEquipamento" -> Text("Tanque")
        [] key = "tag"             -> Text("TQ-001")
        [] key = "defeito"         -> Text("Trinca")
        [] key = "causa"           -> Text("Impacto")
        [] key = "categoriaRTI"    -> Text("I")
        [] key = "recomendacao"    -> Text("Pintura")
        [] key = "ultima"          -> Text("2024-03-15")
        [] key = "data"            -> Text("2024-04-01")
        [] key = "tipoDano"        -> Text("Localizado")
        [] key = "observacoes"     -> Text("")
        [] key = "foto_path"       -> Text(PhotoPath("foto", 0)) ]

With(d, key, v) == [d EXCEPT ![key] = v]

Without(d, key) == [x \in (DOMAIN d) \ {key} |-> d[x]]

EmptyDict == [x \in {} |-> NULL]

\* the field sets handed to save_inspection / update_inspection
Datas ==
  { Complete,
    With(With(Complete, "plataforma", Text("P-2")), "ultima", Text("2024-05-20")),
    With(Complete, "foto_path", NULL),
    With(Complete, "ultima", Text("2024")),
    With(Complete, "tag", Text("")),
    With(Complete, "plataforma", NULL),
    EmptyDict }

\* identifiers a caller may pass: every one assigned so far and one beyond
Ids == 1..(seqs.inspecoes + 1)

----------------------------------------------------------------------------
(* Tables                                                                  *)

\* a row of inspecoes as dict(row) shows it
Row(id, vals, created, updated) ==
  [id |-> id, created_at |-> created, updated_at |-> updated] @@ vals

IdsOf(tbl) == { tbl[i].id : i \in 1..Len(tbl) }

MaxOf(S) == IF S = {} THEN 0 ELSE CHOOSE m \in S : \A x \in S : x <= m

\* INTEGER PRIMARY KEY AUTOINCREMENT: one more than the largest rowid the
\* table has ever held (sqlite_sequence), never a reused one
NextIdStale(tbl, seq) == MaxOf(IdsOf(tbl) \cup {seq})

NextId(tbl, seq) == MaxOf(IdsOf(tbl) \cup {seq}) + 1

\* SELECT * FROM inspecoes WHERE id = ? ; fetchone() is a row or None
Found(tbl, id) == id \in IdsOf(tbl)

RowById(tbl, id) ==
  tbl[CHOOSE i \in 1..Len(tbl) :
        tbl[i].id = id /\ \A j \in 1..(i - 1) : tbl[j].id # id]

\* foreign_keys left OFF: no delete is ever refused
FKNotEnforced(deleted, hist) == FALSE

\* FOREIGN KEY (inspecao_id) REFERENCES inspecoes (id), foreign_keys = ON,
\* no ON DELETE action: deleting a referenced parent row fails
FKBlocked(deleted, hist) ==
  \E i \in 1..Len(hist) : hist[i].inspecao_id \in deleted

\* truthiness of a stored foto_path
HasPhoto(row) == row.foto_path # NULL /\ row.foto_path.s # ""

----------------------------------------------------------------------------
(* Initial state: InspectionDatabase() on a fresh file, empty photo dir    *)

\* what the last call was and what it returned
\* op: the call; ok: it returned normally with a true result; raised: an
\* exception escaped; id: the identifier save_inspection returned
Result(op, id, ok, raised) ==
  [op |-> op, id |-> id, ok |-> ok, raised |-> raised]

Init ==
  /\ inspecoes = << >>
  /\ historico_alteracoes = << >>
  /\ seqs = [inspecoes |-> 0, historico_alteracoes |-> 0]
  /\ files = {}
  /\ clock = 0
  /\ last = Result("init", 0, TRUE, FALSE)

UnchangedDB == UNCHANGED <<inspecoes, historico_alteracoes, seqs>>

----------------------------------------------------------------------------
(* save_inspection                                                         *)

\* "db": a statement or the commit raises a storage error
SaveFaults == {"none", "db"}

\* created_at and updated_at are two successive datetime.now() samples
SaveInspection(data, fault) ==
  /\ UNCHANGED files
  /\ LET vals == BindRow(data)
         id   == NextId(inspecoes, seqs.inspecoes)
     IN  IF fault # "none" \/ ~NotNullOK(vals)
           THEN \* IntegrityError or storage error: rollback, re-raise
                /\ UnchangedDB
                /\ UNCHANGED clock
                /\ last' = Result("save", 0, FALSE, TRUE)
           ELSE /\ clock + 2 <= MaxClock
                /\ clock' = clock + 2
                /\ inspecoes' = Append(inspecoes, Row(id, vals, clock, clock + 1))
                /\ seqs' = [seqs EXCEPT !.inspecoes = id]
                /\ UNCHANGED historico_alteracoes
                /\ last' = Result("save", id, TRUE, FALSE)

----------------------------------------------------------------------------
(* _log_changes                                                            *)

\* the fields _log_changes finds changed: for every key of the stored row
\* but id and the two timestamps, str(old[field]) # str(new.get(field, ''))
DiffFields(old_data, new_data) ==
  SelectSeq(DataCols,
    LAMBDA field :
      /\ field \notin {"id", "created_at", "updated_at"}
      /\ Str(old_data[field]) # Str(Dget(new_data, field)))

\* the first n rows _log_changes inserts
LogRows(inspection_id, old_data, new_data, n, seq, now) ==
  LET diffs == DiffFields(old_data, new_data)
  IN  [ i \in 1..n |->
          [ id             |-> seq + i,
            inspecao_id    |-> inspection_id,
            campo          |-> diffs[i],
            valor_anterior |-> Str(old_data[diffs[i]]),
            valor_novo     |-> Str(Dget(new_data, diffs[i])),
            data_alteracao |-> now \div TicksPerSecond ] ]

\* an INSERT that replaces the table's rows
InsertLogReplacing(hist, rows) == rows

\* INSERT INTO historico_alteracoes, once per row
InsertLog(hist, rows) == hist \o rows

----------------------------------------------------------------------------
(* update_inspection                                                       *)

\* an update of an unknown identifier reported as done
NotFoundAsDone == Result("update", 0, TRUE, FALSE)

\* "if not current_data: return False"
NotFound == Result("update", 0, FALSE, FALSE)

UpdateFaults == {"none", "select", "db", "log", "log_rb"}

\* the UPDATE without its WHERE clause
UpdateRowsEverywhere(tbl, id, vals, now) ==
  [ i \in 1..Len(tbl) |-> Row(tbl[i].id, vals, tbl[i].created_at, now) ]

\* UPDATE inspecoes SET <data columns>, updated_at = ? WHERE id = ?
UpdateRows(tbl, id, vals, now) ==
  [ i \in 1..Len(tbl) |->
      IF tbl[i].id = id
        THEN Row(tbl[i].id, vals, tbl[i].created_at, now)
        ELSE tbl[i] ]

\* the INSERTs of _log_changes taken to raise under a fault: the first
\* one or the last one (after an automatic rollback the position is
\* immaterial)
LogFaultPoints(tbl, id, data, fault) ==
  IF fault \in {"log", "log_rb"} /\ Found(tbl, id)
    THEN LET n == Len(DiffFields(RowById(tbl, id), data))
         IN  IF fault = "log" THEN {1, n} \cap 1..n ELSE {1} \cap 1..n
    ELSE {0}

\* fault names the step that raises: the SELECT of the current row
\* ("select"), the UPDATE or the commit ("db"), or the k-th INSERT of
\* _log_changes, after which the transaction is still open ("log") or has
\* been rolled back by SQLite itself ("log_rb")
UpdateInspection(id, data, fault, k) ==
  /\ UNCHANGED files
  /\ IF fault = "select" \/ ~Found(inspecoes, id)
       THEN \* current_data is None: return False
            /\ k = 0
            /\ UnchangedDB
            /\ UNCHANGED clock
            /\ last' = NotFound
       ELSE LET current_data == RowById(inspecoes, id)
                vals  == BindRow(data)
                n     == Len(DiffFields(current_data, data))
                seq   == seqs.historico_alteracoes
            IN  CASE fault = "db" \/ ~NotNullOK(vals) ->
                       \* except branch: rollback, return False
                       /\ k = 0
                       /\ UnchangedDB
                       /\ UNCHANGED clock
                       /\ last' = Result("update", 0, FALSE, FALSE)
                  [] fault = "log_rb" /\ NotNullOK(vals) ->
                       \* the exception is swallowed in _log_changes,
                       \* commit finds nothing to commit, return True
                       /\ k \in 1..n
                       /\ UnchangedDB
                       /\ UNCHANGED clock
                       /\ last' = Result("update", 0, TRUE, FALSE)
                  [] OTHER ->
                       LET m == IF fault = "log" THEN k - 1 ELSE n
                       IN  /\ IF fault = "log" THEN k \in 1..n ELSE k = 0
                           /\ clock + 1 <= MaxClock
                           /\ Len(historico_alteracoes) + m <= MaxLog
                           /\ clock' = clock + 1
                           /\ inspecoes' = UpdateRows(inspecoes, id, vals, clock)
                           /\ historico_alteracoes' =
                                InsertLog(historico_alteracoes,
                                  LogRows(id, current_data, data, m, seq, clock))
                           /\ seqs' = [seqs EXCEPT !.historico_alteracoes = seq + m]
                           /\ last' = Result("update", 0, TRUE, FALSE)

----------------------------------------------------------------------------
(* delete_inspection                                                       *)

DeleteFaults == {"none", "select", "db"}

\* the photo step of delete_inspection: os.remove of the stored path when
\* the row was found, has a path and the file exists; rmfail makes
\* os.remove raise, which the inner except swallows
FilesAfterDelete(fs, tbl, id, fault, rmfail) ==
  IF fault # "select" /\ Found(tbl, id) /\ HasPhoto(RowById(tbl, id))
       /\ RowById(tbl, id).foto_path.s \in fs /\ ~rmfail
    THEN fs \ {RowById(tbl, id).foto_path.s}
    ELSE fs

\* DELETE FROM inspecoes WHERE id = ?
DeleteRows(tbl, id) == SelectSeq(tbl, LAMBDA r : r.id # id)

DeleteInspection(id, fault, rmfail) ==
  /\ UNCHANGED <<historico_alteracoes, seqs, clock>>
  /\ files' = FilesAfterDelete(files, inspecoes, id, fault, rmfail)
  /\ rmfail => FilesAfterDelete(files, inspecoes, id, fault, FALSE) # files
  /\ IF \/ fault = "db"
        \/ FKBlocked(IdsOf(inspecoes) \cap {id}, historico_alteracoes)
       THEN \* rollback, return False
            /\ UNCHANGED inspecoes
            /\ last' = Result("delete", 0, FALSE, FALSE)
       ELSE /\ inspecoes' = DeleteRows(inspecoes, id)
            /\ last' = Result("delete", 0, TRUE, FALSE)

----------------------------------------------------------------------------
(* clear_all_inspections                                                   *)

ClearFaults == {"none", "select", "db"}

\* SELECT foto_path FROM inspecoes WHERE foto_path IS NOT NULL, kept when
\* the path is non-empty
StoredPhotos(tbl) ==
  { tbl[i].foto_path.s : i \in { j \in 1..Len(tbl) : HasPhoto(tbl[j]) } }

\* rmfails: the files whose os.remove raises (swallowed per file)
ClearAllInspections(fault, rmfails) ==
  /\ UNCHANGED <<seqs, clock>>
  /\ rmfails \subseteq (StoredPhotos(inspecoes) \cap files)
  /\ fault = "select" => rmfails = {}
  /\ files' = IF fault = "select"
                THEN files
                ELSE files \ (StoredPhotos(inspecoes) \ rmfails)
  /\ IF \/ fault # "none"
        \/ FKBlocked(IdsOf(inspecoes), historico_alteracoes)
       THEN \* rollback, return False
            /\ UNCHANGED <<inspecoes, historico_alteracoes>>
            /\ last' = Result("clear", 0, FALSE, FALSE)
       ELSE /\ inspecoes' = << >>
            /\ historico_alteracoes' = << >>
            /\ last' = Result("clear", 0, TRUE, FALSE)

----------------------------------------------------------------------------
(* Photo files: ingest by the photo handler, removal from outside          *)

\* _process_and_save_photo: the output name is the source name and the
\* time to the second; img.save overwrites an existing file of that name
ProcessAndSavePhoto(name, fail) ==
  /\ UnchangedDB
  /\ IF fail
       THEN /\ UNCHANGED <<files, clock>>
            /\ last' = Result("ingest", 0, FALSE, FALSE)
       ELSE /\ clock + 1 <= MaxClock
            /\ clock' = clock + 1
            /\ files' = files \cup {PhotoPath(name, clock)}
            /\ last' = Result("ingest", 0, TRUE, FALSE)

\* a file of the photo directory is removed by something else
ExternalRemove(path) ==
  /\ path \in files
  /\ files' = files \ {path}
  /\ UnchangedDB
  /\ UNCHANGED clock
  /\ last' = Result("extrm", 0, TRUE, FALSE)

----------------------------------------------------------------------------
(* The persistence component driven by arbitrary calls, every statement   *)
(* succeeding                                                              *)

Next ==
  \/ \E data \in Datas : SaveInspection(data, "none")
  \/ \E id \in Ids, data \in Datas : UpdateInspection(id, data, "none", 0)
  \/ \E id \in Ids : DeleteInspection(id, "none", FALSE)
  \/ ClearAllInspections("none", {})
  \/ \E name \in SrcNames : ProcessAndSavePhoto(name, FALSE)
  \/ \E path \in files : ExternalRemove(path)

Spec == Init /\ [][Next]_vars

----------------------------------------------------------------------------
(* The same calls when storage statements, commits and file removals may   *)
(* raise                                                                   *)

NextFaulty ==
  \/ \E data \in Datas, fault \in SaveFaults :
        SaveInspection(data, fault) /\ clock' <= MaxFaultyClock
  \/ \E id \in Ids, data \in Datas, fault \in UpdateFaults :
        \E k \in LogFaultPoints(inspecoes, id, data, fault) :
          UpdateInspection(id, data, fault, k) /\ clock' <= MaxFaultyClock
  \/ \E id \in Ids, fault \in DeleteFaults, rmfail \in BOOLEAN :
        DeleteInspection(id, fault, rmfail)
  \/ \E fault \in ClearFaults, rmfails \in SUBSET files :
        ClearAllInspections(fault, rmfails)
  \/ \E name \in SrcNames, fail \in BOOLEAN :
        ProcessAndSavePhoto(name, fail) /\ clock' <= MaxFaultyClock
  \/ \E path \in files : ExternalRemove(path)

SpecFaulty == Init /\ [][NextFaulty]_vars

----------------------------------------------------------------------------
(* The same calls when os.remove may raise and every storage statement     *)
(* succeeds                                                                *)

NextRemovalFaults ==
  \/ Next
  \/ \E id \in Ids : DeleteInspection(id, "none", TRUE)
  \/ \E rmfails \in (SUBSET files) \ {{}} : ClearAllInspections("none", rmfails)

SpecRemovalFaults == Init /\ [][NextRemovalFaults]_vars

----------------------------------------------------------------------------
(* Dates (src/date_validator.py): text is a sequence of characters, a date *)
(* is its proleptic Gregorian ordinal (0001-01-01 is day 1), as in         *)
(* Python's datetime                                                       *)

Digits == << "0", "1", "2", "3", "4", "5", "6", "7", "8", "9" >>

IsDigit(c) == \E i \in 1..10 : Digits[i] = c

DigitVal(c) == (CHOOSE i \in 1..10 : Digits[i] = c) - 1

\* datetime.MINYEAR and datetime.MAXYEAR
MinYear == 1

MaxYear == 9999

IsLeap(y) == y % 4 = 0 /\ (y % 100 # 0 \/ y % 400 = 0)

DaysInMonth(y, m) ==
  CASE m \in {4, 6, 9, 11} -> 30
    [] m = 2               -> IF IsLeap(y) THEN 29 ELSE 28
    [] OTHER               -> 31

\* days of the years before year y
DaysBeforeYear(y) ==
  (y - 1) * 365 + (y - 1) \div 4 - (y - 1) \div 100 + (y - 1) \div 400

\* days of year y before the first of month m
DaysBeforeMonth(y, m) ==
  << 0, 31, 59, 90, 120, 151, 181, 212, 243, 273, 304, 334 >>[m]
    + (IF m > 2 /\ IsLeap(y) THEN 1 ELSE 0)

ToOrdinal(y, m, d) == DaysBeforeYear(y) + DaysBeforeMonth(y, m) + d

MinOrdinal == ToOrdinal(MinYear, 1, 1)

MaxOrdinal == ToOrdinal(MaxYear, 12, 31)

\* year, month and day of an ordinal
FromOrdinal(n) ==
  LET y == CHOOSE yy \in (n \div 366)..((n \div 365) + 1) :
               /\ yy >= MinYear
               /\ DaysBeforeYear(yy) < n /\ n <= DaysBeforeYear(yy + 1)
      r == n - DaysBeforeYear(y)
      m == CHOOSE mm \in 1..12 :
               /\ DaysBeforeMonth(y, mm) < r
               /\ r <= DaysBeforeMonth(y, mm) + DaysInMonth(y, mm)
  IN  [year |-> y, month |-> m, day |-> r - DaysBeforeMonth(y, m)]

\* what a call returns, or the exception that escapes it
Return(v) == [raised |-> FALSE, value |-> v]

Raise(e) == [raised |-> TRUE, value |-> e]

\* the directive %m of strptime: 1[0-2] | 0[1-9] | [1-9]
IsMonthToken(t) ==
  \/ Len(t) = 2 /\ t[1] = "1" /\ t[2] \in {"0", "1", "2"}
  \/ Len(t) = 2 /\ t[1] = "0" /\ IsDigit(t[2]) /\ t[2] # "0"
  \/ Len(t) = 1 /\ IsDigit(t[1]) /\ t[1] # "0"

\* the directive %d of strptime: 3[01] | [12]\d | 0[1-9] | [1-9] | ' '[1-9]
IsDayToken(t) ==
  \/ Len(t) = 2 /\ t[1] = "3" /\ t[2] \in {"0", "1"}
  \/ Len(t) = 2 /\ t[1] \in {"1", "2"} /\ IsDigit(t[2])
  \/ Len(t) = 2 /\ t[1] \in {"0", " "} /\ IsDigit(t[2]) /\ t[2] # "0"
  \/ Len(t) = 1 /\ IsDigit(t[1]) /\ t[1] # "0"

\* int() of a token of digits, a leading blank counting for nothing
TokenVal(t) ==
  IF Len(t) = 1 THEN DigitVal(t[1])
  ELSE IF Len(t) = 2
         THEN (IF t[1] = " " THEN 0 ELSE DigitVal(t[1])) * 10 + DigitVal(t[2])
         ELSE DigitVal(t[1]) * 1000 + DigitVal(t[2]) * 100
                + DigitVal(t[3]) * 10 + DigitVal(t[4])

\* datetime.strptime(s, '%Y-%m-%d'): the whole text must match
\* \d\d\d\d-%m-%d and name a day of the calendar, else ValueError
Strptime(s) ==
  IF /\ Len(s) \in 8..10
     /\ \A i \in 1..4 : IsDigit(s[i])
     /\ s[5] = "-"
     /\ \E p \in {7, 8} :
          /\ s[p] = "-"
          /\ IsMonthToken(SubSeq(s, 6, p - 1))
          /\ IsDayToken(SubSeq(s, p + 1, Len(s)))
    THEN LET p == CHOOSE q \in {7, 8} : s[q] = "-" /\ IsMonthToken(SubSeq(s, 6, q - 1))
             y == TokenVal(SubSeq(s, 1, 4))
             m == TokenVal(SubSeq(s, 6, p - 1))
             d == TokenVal(SubSeq(s, p + 1, Len(s)))
         IN  IF y >= MinYear /\ d <= DaysInMonth(y, m)
               THEN Return(ToOrdinal(y, m, d))
               ELSE Raise("ValueError")
    ELSE Raise("ValueError")

\* date + timedelta(days): OverflowError outside MINYEAR..MAXYEAR
AddDays(ord, days) ==
  IF ord + days \in MinOrdinal..MaxOrdinal
    THEN Return(ord + days)
    ELSE Raise("OverflowError")

\* a number below 100 as two digits
Pad2(n) == << Digits[(n \div 10) + 1], Digits[(n % 10) + 1] >>

\* the decimal digits of a positive number, without padding
RECURSIVE Decimal(_)
Decimal(n) ==
  IF n < 10 THEN << Digits[n + 1] >>
            ELSE Append(Decimal(n \div 10), Digits[(n % 10) + 1])

\* %Y of strftime: four digits from year 1000 on; below, the C library
\* decides whether the year is padded with zeros (pad) or not
FormatYear(y, pad) ==
  IF pad /\ y < 1000
    THEN SubSeq(<< "0", "0", "0" >>, 1, 4 - Len(Decimal(y))) \o Decimal(y)
    ELSE Decimal(y)

\* strftime('%Y-%m-%d')
Strftime(ord, pad) ==
  LET d == FromOrdinal(ord)
  IN  FormatYear(d.year, pad) \o << "-" >> \o Pad2(d.month)
        \o << "-" >> \o Pad2(d.day)

\* strftime('%d/%m/%Y')
StrftimeBR(ord, pad) ==
  LET d == FromOrdinal(ord)
  IN  Pad2(d.day) \o << "/" >> \o Pad2(d.month) \o << "/" >>
        \o FormatYear(d.year, pad)

----------------------------------------------------------------------------
(* DateValidator: today is the date datetime.now() gives the call          *)

\* (é_válida, mensagem)
Verdict(valid, message) == [valid |-> valid, message |-> message]

ValidateInspectionDate(date_str, today) ==
  IF date_str = << >>
    THEN Return(Verdict(FALSE, "Data de inspeção é obrigatória"))
    ELSE LET inspection_date == Strptime(date_str)
             limit == AddDays(today, -30)
         IN  IF inspection_date.raised
               THEN Return(Verdict(FALSE, "Formato de data inválido. Use YYYY-MM-DD"))
               ELSE IF inspection_date.value > today
                 THEN Return(Verdict(FALSE, "Data de inspeção não pode ser no futuro"))
                 ELSE IF limit.raised
                   THEN limit
                   ELSE IF inspection_date.value < limit.value
                     THEN Return(Verdict(FALSE,
                            "Data de inspeção não pode ser há mais de 30 dias"))
                     ELSE Return(Verdict(TRUE, "Data válida"))

ValidateLastInspectionDate(date_str, today) ==
  IF date_str = << >>
    THEN Return(Verdict(FALSE, "Data da última inspeção é obrigatória"))
    ELSE LET last_date == Strptime(date_str)
             limit == AddDays(today, -3650)
         IN  IF last_date.raised
               THEN Return(Verdict(FALSE, "Formato de data inválido. Use YYYY-MM-DD"))
               ELSE IF last_date.value > today
                 THEN Return(Verdict(FALSE,
                        "Data da última inspeção não pode ser no futuro"))
                 ELSE IF limit.raised
                   THEN limit
                   ELSE IF last_date.value < limit.value
                     THEN Return(Verdict(FALSE,
                            "Data da última inspeção não pode ser há mais de 10 anos"))
                     ELSE Return(Verdict(TRUE, "Data válida"))

\* pad: how the platform's strftime prints a year below 1000
CalculateNextInspectionDate(last_inspection_date, validity_months, pad) ==
  LET last_date == Strptime(last_inspection_date)
  IN  IF last_date.raised
        THEN Return(<< >>)
        ELSE LET next_date == AddDays(last_date.value, validity_months * 30)
             IN  IF next_date.raised
                   THEN next_date
                   ELSE Return(Strftime(next_date.value, pad))

\* today >= due_date in place of today > due_date
IsOverdueOnDueDay(last_inspection_date, validity_months, today) ==
  IF last_inspection_date = << >>
    THEN Return(FALSE)
    ELSE LET last_date == Strptime(last_inspection_date)
         IN  IF last_date.raised
               THEN Return(FALSE)
               ELSE LET due_date == AddDays(last_date.value, validity_months * 30)
                    IN  IF due_date.raised
                          THEN due_date
                          ELSE Return(today >= due_date.value)

IsOverdue(last_inspection_date, validity_months, today) ==
  IF last_inspection_date = << >>
    THEN Return(FALSE)
    ELSE LET last_date == Strptime(last_inspection_date)
         IN  IF last_date.raised
               THEN Return(FALSE)
               ELSE LET due_date == AddDays(last_date.value, validity_months * 30)
                    IN  IF due_date.raised
                          THEN due_date
                          ELSE Return(today > due_date.value)

\* the days counted from today to the due date, both included
GetDaysUntilDueInclusive(last_inspection_date, validity_months, today) ==
  IF last_inspection_date = << >>
    THEN Return(0)
    ELSE LET last_date == Strptime(last_inspection_date)
         IN  IF last_date.raised
               THEN Return(0)
               ELSE LET due_date == AddDays(last_date.value, validity_months * 30)
                    IN  IF due_date.raised
                          THEN due_date
                          ELSE Return(due_date.value - today + 1)

GetDaysUntilDue(last_inspection_date, validity_months, today) ==
  IF last_inspection_date = << >>
    THEN Return(0)
    ELSE LET last_date == Strptime(last_inspection_date)
         IN  IF last_date.raised
               THEN Return(0)
               ELSE LET due_date == AddDays(last_date.value, validity_months * 30)
                    IN  IF due_date.raised
                          THEN due_date
                          ELSE Return(due_date.value - today)

\* the thirtieth day taken for attention already
ClassifyEarly(days_until_due) ==
  IF days_until_due < 0
    THEN << "overdue", "Inspeção vencida!" >>
    ELSE IF days_until_due < 30
      THEN << "warning", "Inspeção vence em breve" >>
      ELSE IF days_until_due <= 90
        THEN << "attention", "Inspeção vence em alguns meses" >>
        ELSE << "ok", "Inspeção em dia" >>

\* the status class and message of a number of days until due
Classify(days_until_due) ==
  IF days_until_due < 0
    THEN << "overdue", "Inspeção vencida!" >>
    ELSE IF days_until_due <= 30
      THEN << "warning", "Inspeção vence em breve" >>
      ELSE IF days_until_due <= 90
        THEN << "attention", "Inspeção vence em alguns meses" >>
        ELSE << "ok", "Inspeção em dia" >>

\* the dict returned when there is no date to work with
NoStatus(status, message) ==
  [ status |-> status, message |-> message, is_overdue |-> FALSE,
    days_until_due |-> 0, next_inspection_date |-> << >>,
    last_inspection_formatted |-> << >> ]

GetInspectionStatus(last_inspection_date, validity_months, today, pad) ==
  IF last_inspection_date = << >>
    THEN Return(NoStatus("unknown", "Data não informada"))
    ELSE LET last_date == Strptime(last_inspection_date)
         IN  IF last_date.raised
               THEN Return(NoStatus("error", "Erro ao processar data"))
               ELSE LET next_date == AddDays(last_date.value, validity_months * 30)
                    IN  IF next_date.raised
                          THEN next_date
                          ELSE LET days_until_due == next_date.value - today
                               IN  Return(
                                     [ status  |-> Classify(days_until_due)[1],
                                       message |-> Classify(days_until_due)[2],
                                       is_overdue     |-> days_until_due < 0,
                                       days_until_due |-> days_until_due,
                                       next_inspection_date |->
                                         Strftime(next_date.value, pad),
                                       next_inspection_formatted |->
                                         StrftimeBR(next_date.value, pad),
                                       last_inspection_formatted |->
                                         StrftimeBR(last_date.value, pad),
                                       last_inspection_date |-> last_inspection_date ])

ValidateDateRange(start_date, end_date) ==
  IF start_date = << >> \/ end_date = << >>
    THEN Return(Verdict(FALSE, "Ambas as datas são obrigatórias"))
    ELSE LET start == Strptime(start_date)
             end   == Strptime(end_date)
         IN  IF start.raised \/ end.raised
               THEN Return(Verdict(FALSE, "Formato de data inválido. Use YYYY-MM-DD"))
               ELSE IF start.value > end.value
                 THEN Return(Verdict(FALSE,
                        "Data inicial não pode ser posterior à data final"))
                 ELSE IF end.value - start.value > 365
                   THEN Return(Verdict(FALSE, "Intervalo não pode ser maior que 1 ano"))
                   ELSE Return(Verdict(TRUE, "Intervalo válido"))

----------------------------------------------------------------------------
(* The date functions applied to dates around their thresholds             *)

\* how far around each threshold the dates of the model reach
Slack == 1

Near(S) == { b + k : b \in S, k \in (0 - Slack)..Slack }

\* validity periods, in months
Months == {1, 12}

\* the days datetime.now() may fall on
Todays == { ToOrdinal(2025, 3, 10), ToOrdinal(2026, 11, 2) }

\* thresholds of get_inspection_status, in days until due
StatusThresholds == {-1, 0, 30, 31, 90, 91}

\* thresholds of the two acceptance windows, in days from today
WindowThresholds == {-3651, -3650, -31, -30, 0, 1}

\* dates of the model, in days from today
Offsets ==
  { d - 30 * m : d \in Near(StatusThresholds), m \in Months }
    \cup Near(WindowThresholds)

\* texts that are no day-from-today: empty, the example of the
\* documentation, one-digit month and day, a day the month lacks, slashes,
\* the last day of the calendar, a year of three digits
Literals ==
  { << >>,
    << "2", "0", "2", "4", "-", "0", "3", "-", "1", "5" >>,
    << "2", "0", "2", "5", "-", "3", "-", "9" >>,
    << "2", "0", "2", "4", "-", "0", "2", "-", "3", "0" >>,
    << "2", "0", "2", "4", "/", "0", "3", "/", "1", "5" >>,
    << "9", "9", "9", "9", "-", "1", "2", "-", "3", "1" >>,
    << "0", "9", "9", "9", "-", "0", "1", "-", "0", "1" >> }

\* the texts handed to the functions on a given day
DateStrs(today) ==
  Literals \cup { Strftime(today + off, TRUE) : off \in Offsets }

\* thresholds of validate_date_range, in days from start to end
SpanThresholds == {-1, 0, 365, 366}

\* first days of the intervals: before a leap day, and before none
Starts == { ToOrdinal(2024, 1, 1), ToOrdinal(2025, 1, 1) }

DateRanges ==
  { << Strftime(start, TRUE), Strftime(start + span, TRUE) >> :
      start \in Starts, span \in Near(SpanThresholds) }
    \cup (Literals \X Literals)

\* a call of a date function: its arguments, the day it ran on, the way
\* the platform's strftime prints a year below 1000, and what came back
Call(op, args, today, pad, ret) ==
  [ op |-> op, id |-> 0, ok |-> ~ret.raised, raised |-> ret.raised,
    args |-> args, today |-> today, pad |-> pad, value |-> ret.value ]

\* the arguments, the day and the platform, before any function has been
\* applied
DateInputs ==
  UNION { { Call("input", [date_str |-> date_str, months |-> months], today,
                 pad, Return(0)) :
              date_str \in DateStrs(today), months \in Months, pad \in BOOLEAN } :
          today \in Todays }

RangeInputs ==
  { Call("input", [start_date |-> range[1], end_date |-> range[2]],
         CHOOSE today \in Todays : TRUE, TRUE, Return(0)) :
      range \in DateRanges }

InitDates ==
  /\ inspecoes = << >>
  /\ historico_alteracoes = << >>
  /\ seqs = [inspecoes |-> 0, historico_alteracoes |-> 0]
  /\ files = {}
  /\ clock = 0
  /\ last \in DateInputs \cup RangeInputs

UnchangedStore == UNCHANGED <<inspecoes, historico_alteracoes, seqs, files, clock>>

HasDate == "date_str" \in DOMAIN last.args

HasRange == "start_date" \in DOMAIN last.args

ValidateInspectionDateCall ==
  /\ HasDate
  /\ UnchangedStore
  /\ last' = Call("validate_inspection_date", last.args, last.today, last.pad,
                  ValidateInspectionDate(last.args.date_str, last.today))

ValidateLastInspectionDateCall ==
  /\ HasDate
  /\ UnchangedStore
  /\ last' = Call("validate_last_inspection_date", last.args, last.today,
                  last.pad,
                  ValidateLastInspectionDate(last.args.date_str, last.today))

CalculateNextInspectionDateCall ==
  /\ HasDate
  /\ UnchangedStore
  /\ last' = Call("calculate_next_inspection_date", last.args, last.today,
                  last.pad,
                  CalculateNextInspectionDate(last.args.date_str,
                                              last.args.months, last.pad))

IsOverdueCall ==
  /\ HasDate
  /\ UnchangedStore
  /\ last' = Call("is_overdue", last.args, last.today, last.pad,
                  IsOverdue(last.args.date_str, last.args.months, last.today))

GetDaysUntilDueCall ==
  /\ HasDate
  /\ UnchangedStore
  /\ last' = Call("get_days_until_due", last.args, last.today, last.pad,
                  GetDaysUntilDue(last.args.date_str, last.args.months,
                                  last.today))

GetInspectionStatusCall ==
  /\ HasDate
  /\ UnchangedStore
  /\ last' = Call("get_inspection_status", last.args, last.today, last.pad,
                  GetInspectionStatus(last.args.date_str, last.args.months,
                                      last.today, last.pad))

ValidateDateRangeCall ==
  /\ HasRange
  /\ UnchangedStore
  /\ last' = Call("validate_date_range", last.args, last.today, last.pad,
                  ValidateDateRange(last.args.start_date, last.args.end_date))

NextDates ==
  \/ ValidateInspectionDateCall
  \/ ValidateLastInspectionDateCall
  \/ CalculateNextInspectionDateCall
  \/ IsOverdueCall
  \/ GetDaysUntilDueCall
  \/ GetInspectionStatusCall
  \/ ValidateDateRangeCall

SpecDates == InitDates /\ [][NextDates]_vars

----------------------------------------------------------------------------
(* The form (src/main.py): its fields are texts, sequences of characters   *)

RECURSIVE LStrip(_)
LStrip(t) == IF t # << >> /\ t[1] = " " THEN LStrip(Tail(t)) ELSE t

RECURSIVE RStrip(_)
RStrip(t) ==
  IF t # << >> /\ t[Len(t)] = " " THEN RStrip(SubSeq(t, 1, Len(t) - 1)) ELSE t

\* str.strip()
Strip(t) == RStrip(LStrip(t))

\* the str of a sequence of characters
RECURSIVE Join(_)
Join(t) == IF t = << >> THEN "" ELSE t[1] \o Join(Tail(t))

\* the attributes setup_variables gives the form
FormVars ==
  { "plataforma_var", "modulo_var", "setor_var", "tipo_equipamento_var",
    "tag_var", "defeito_var", "causa_var", "categoria_rti_var",
    "recomendacao_var", "ultima_var", "data_var", "tipo_dano_var",
    "observacoes_var" }

\* the widgets and attributes collect_form_data reads
FormFields == (FormVars \ {"observacoes_var"}) \cup {"observacoes_text"}

\* required_fields of validate_form: the name the attribute is looked up
\* by, and the label of the message
RequiredFormFields ==
  << << "plataforma", "Plataforma" >>,
     << "modulo", "Módulo" >>,
     << "setor", "Setor" >>,
     << "tipoEquipamento", "Tipo de Equipamento" >>,
     << "defeito", "Defeito" >>,
     << "causa", "Causa" >>,
     << "categoriaRTI", "Categoria RTI" >>,
     << "recomendacao", "Recomendação" >>,
     << "ultima", "Data da Última Inspeção" >>,
     << "data", "Data da Inspeção Atual" >>,
     << "tipoDano", "Tipo de Dano" >> >>

\* validate_form had it looked only at the attributes the form has
ValidateFormOfPresent(form) ==
  LET stops == { i \in 1..Len(RequiredFormFields) :
                   /\ (RequiredFormFields[i][1] \o "_var") \in FormVars
                   /\ Strip(form[RequiredFormFields[i][1] \o "_var"]) = << >> }
  IN  IF stops = {}
        THEN Return([valid |-> TRUE, title |-> "", message |-> ""])
        ELSE LET i == CHOOSE j \in stops : \A k \in stops : j <= k
             IN  Return([valid |-> FALSE, title |-> "Validação",
                         message |-> "Campo '" \o RequiredFormFields[i][2]
                                       \o "' é obrigatório!"])

\* validate_form: the first required field whose attribute is missing
\* raises AttributeError, the first one that is blank shows a message and
\* gives False
ValidateForm(form) ==
  LET stops == { i \in 1..Len(RequiredFormFields) :
                   \/ (RequiredFormFields[i][1] \o "_var") \notin FormVars
                   \/ Strip(form[RequiredFormFields[i][1] \o "_var"]) = << >> }
  IN  IF stops = {}
        THEN Return([valid |-> TRUE, title |-> "", message |-> ""])
        ELSE LET i == CHOOSE j \in stops : \A k \in stops : j <= k
                 attr == RequiredFormFields[i][1] \o "_var"
             IN  IF attr \notin FormVars
                   THEN Raise("'InspectionFormApp' object has no attribute '"
                                \o attr \o "'")
                   ELSE Return([valid |-> FALSE, title |-> "Validação",
                                message |-> "Campo '" \o RequiredFormFields[i][2]
                                              \o "' é obrigatório!"])

\* the attribute or widget collect_form_data reads for a key of the dict
FormFieldOf(key) ==
  CASE key = "tipoEquipamento" -> "tipo_equipamento_var"
    [] key = "categoriaRTI"    -> "categoria_rti_var"
    [] key = "tipoDano"        -> "tipo_dano_var"
    [] key = "observacoes"     -> "observacoes_text"
    [] OTHER                   -> key \o "_var"

\* collect_form_data; current_photo_path is a path or None
CollectFormData(form, current_photo_path) ==
  [ key \in Keys |->
      IF key = "foto_path"
        THEN (IF current_photo_path = NULL THEN Text("") ELSE current_photo_path)
        ELSE Text(Join(Strip(form[FormFieldOf(key)]))) ]

ReportsDir == "relatorios/"

\* f"relatorio_inspecao_{equipment_tag}_{timestamp}.pdf" under output_dir
ReportPath(equipment_tag, t) ==
  ReportsDir \o "relatorio_inspecao_" \o equipment_tag \o "_" \o Stamp(t) \o ".pdf"

\* what the handler of the save button leaves behind: the form, the dialog
\* it showed, and whether a record and a report were produced
FormResult(form, photo, today, pad, id, ok, title, message) ==
  [ op |-> "form_save", id |-> id, ok |-> ok, raised |-> FALSE,
    args |-> [form |-> form, current_photo_path |-> photo],
    today |-> today, pad |-> pad,
    value |-> [title |-> title, message |-> message] ]

\* clear_form: every field blank but the date of the inspection, no photo
ClearedForm(today, pad) ==
  [ f \in FormFields |->
      IF f = "data_var" THEN Strftime(today, pad) ELSE << >> ]

\* InspectionFormApp.save_inspection; render_fails: building the PDF raises
FormSaveInspection(render_fails) ==
  LET form  == last.args.form
      photo == last.args.current_photo_path
      check == ValidateForm(form)
      data  == CollectFormData(form, photo)
      vals  == BindRow(data)
      id    == NextId(inspecoes, seqs.inspecoes)
      Shown(title, message) ==
        last' = FormResult(form, photo, last.today, last.pad, 0, FALSE,
                           title, message)
  IN  /\ "form" \in DOMAIN last.args
      /\ UNCHANGED historico_alteracoes
      /\ IF check.raised
           THEN \* AttributeError, caught by the handler
                /\ ~render_fails
                /\ UNCHANGED <<inspecoes, seqs, files, clock>>
                /\ Shown("Erro", "Erro ao salvar inspeção: " \o check.value)
           ELSE IF ~check.value.valid
             THEN \* validate_form has shown its message
                  /\ ~render_fails
                  /\ UNCHANGED <<inspecoes, seqs, files, clock>>
                  /\ Shown(check.value.title, check.value.message)
             ELSE IF ~NotNullOK(vals)
               THEN \* db.save_inspection raises
                    /\ ~render_fails
                    /\ UNCHANGED <<inspecoes, seqs, files, clock>>
                    /\ Shown("Erro", "Erro ao salvar inspeção: IntegrityError")
               ELSE /\ clock + 3 <= MaxClock
                    /\ clock' = clock + 3
                    /\ inspecoes' = Append(inspecoes, Row(id, vals, clock, clock + 1))
                    /\ seqs' = [seqs EXCEPT !.inspecoes = id]
                    /\ IF render_fails
                         THEN /\ UNCHANGED files
                              /\ Shown("Erro", "Erro ao salvar inspeção: render")
                         ELSE /\ files' = files \cup
                                   {ReportPath(Dget(data, "tag").s, clock + 2)}
                              /\ last' = FormResult(
                                   ClearedForm(last.today, last.pad), NULL,
                                   last.today, last.pad, id, TRUE, "Sucesso",
                                   "Inspeção salva com ID: " \o ToString(id))

\* the texts a user may leave in a field of free text
Blank == << " " >>

FilledForm ==
  [ f \in FormFields |->
      CASE f = "plataforma_var"       -> << "P", "-", "1" >>
        [] f = "modulo_var"           -> << "M", "0", "1" >>
        [] f = "setor_var"            -> << "S", "0", "1" >>
        [] f = "tipo_equipamento_var" -> << "T", "a", "n", "q", "u", "e" >>
        [] f = "tag_var"              -> << "T", "Q", "-", "0", "0", "1" >>
        [] f = "defeito_var"          -> << "T", "r", "i", "n", "c", "a" >>
        [] f = "causa_var"            -> << "I", "m", "p", "a", "c", "t", "o" >>
        [] f = "categoria_rti_var"    -> << "I" >>
        [] f = "recomendacao_var"     -> << "P", "i", "n", "t", "u", "r", "a" >>
        [] f = "ultima_var"           -> << "2", "0", "2", "4", "-", "0", "3", "-", "1", "5" >>
        [] f = "data_var"             -> << "2", "0", "2", "5", "-", "0", "3", "-", "1", "0" >>
        [] f = "tipo_dano_var"        -> << "L", "o", "c", "a", "l" >>
        [] f = "observacoes_text"     -> << >> ]

\* dates of the inspection a user may type, in days from today, and texts
FormDates(today) ==
  { Strftime(today + off, TRUE) : off \in {-31, -30, 0, 1} }
    \cup { << >>, << "2", "0", "2", "4", "/", "0", "3", "/", "1", "5" >> }

\* dates of the last inspection a user may type
FormLastDates(today) ==
  { Strftime(today + off, TRUE) : off \in {-3651, -360, 1} }
    \cup { << "a", "b", "c" >> }

\* the forms on which the save button is pressed
Forms(today) ==
  { [FilledForm EXCEPT !["plataforma_var"] = plataforma,
                       !["tipo_equipamento_var"] = tipo,
                       !["data_var"] = data,
                       !["ultima_var"] = ultima] :
      plataforma \in { FilledForm["plataforma_var"], Blank },
      tipo \in { FilledForm["tipo_equipamento_var"], << >> },
      data \in FormDates(today),
      ultima \in FormLastDates(today) }

FormInputs ==
  UNION { { [ op |-> "input", id |-> 0, ok |-> TRUE, raised |-> FALSE,
              args |-> [form |-> form, current_photo_path |-> photo],
              today |-> today, pad |-> TRUE, value |-> 0 ] :
              form \in Forms(today),
              photo \in {NULL, Text(PhotoPath("foto", 0))} } :
          today \in Todays }

InitForm ==
  /\ inspecoes = << >>
  /\ historico_alteracoes = << >>
  /\ seqs = [inspecoes |-> 0, historico_alteracoes |-> 0]
  /\ files = {}
  /\ clock = 0
  /\ last \in FormInputs

NextForm == \E render_fails \in BOOLEAN : FormSaveInspection(render_fails)

SpecForm == InitForm /\ [][NextForm]_vars

----------------------------------------------------------------------------
(* Batch reports (src/report_generator.py)                                 *)

\* records one batch may hold
MaxBatch == 3

\* a photo file that exists, and a path no file is stored under
StoredPhoto == PhotoPath("foto", 0)

DanglingPhoto == PhotosDir \o "apagada.jpg"

\* rows as get_all_inspections hands them over: with a photo on disk, with
\* a path that leads nowhere, without a photo and under another tag
BatchRecords ==
  { Row(1, BindRow(Complete), 0, 1),
    Row(2, BindRow(With(Complete, "foto_path", Text(DanglingPhoto))), 0, 1),
    Row(3, BindRow(With(With(Complete, "foto_path", NULL),
                        "tag", Text("VS-002"))), 0, 1) }

\* the lists handed to generate_batch_reports
Batches ==
  UNION { [1..n -> BatchRecords] : n \in 0..MaxBatch }

\* "if photo_path and os.path.exists(photo_path)": the report shows a photo
ShowsPhoto(inspection, fs) ==
  HasPhoto(inspection) /\ inspection.foto_path.s \in fs

\* the loop of generate_batch_reports that gives up at the first failure
RECURSIVE BatchFromAborting(_, _, _, _)
BatchFromAborting(inspections, i, fails, acc) ==
  IF i > Len(inspections)
    THEN acc
    ELSE LET inspection == inspections[i]
             pdf_path   == ReportPath(inspection.tag.s, acc.clock)
         IN  IF i \in fails
               THEN [acc EXCEPT !.attempted = Append(@, i)]
               ELSE BatchFromAborting(inspections, i + 1, fails,
                      [acc EXCEPT !.attempted = Append(@, i),
                                  !.generated_files = Append(@, pdf_path),
                                  !.with_photo = IF ShowsPhoto(inspection, acc.files)
                                                   THEN @ \cup {i} ELSE @,
                                  !.files = @ \cup {pdf_path},
                                  !.clock = @ + 1])

\* the loop of generate_batch_reports from record i on; fails: the records
\* whose generate_inspection_report raises; acc: the paths generated, the
\* records attempted, the reports that show a photo, the files and the clock
RECURSIVE BatchFrom(_, _, _, _)
BatchFrom(inspections, i, fails, acc) ==
  IF i > Len(inspections)
    THEN acc
    ELSE LET inspection == inspections[i]
             pdf_path   == ReportPath(inspection.tag.s, acc.clock)
         IN  IF i \in fails
               THEN \* except Exception: continue
                    BatchFrom(inspections, i + 1, fails,
                      [acc EXCEPT !.attempted = Append(@, i)])
               ELSE BatchFrom(inspections, i + 1, fails,
                      [acc EXCEPT !.attempted = Append(@, i),
                                  !.generated_files = Append(@, pdf_path),
                                  !.with_photo = IF ShowsPhoto(inspection, acc.files)
                                                   THEN @ \cup {i} ELSE @,
                                  !.files = @ \cup {pdf_path},
                                  !.clock = @ + 1])

BatchInputs ==
  { [ op |-> "input", id |-> 0, ok |-> TRUE, raised |-> FALSE,
      args |-> [inspections |-> inspections], value |-> 0 ] :
      inspections \in Batches }

InitBatch ==
  /\ inspecoes = << >>
  /\ historico_alteracoes = << >>
  /\ seqs = [inspecoes |-> 0, historico_alteracoes |-> 0]
  /\ files = {StoredPhoto}
  /\ clock = 0
  /\ last \in BatchInputs

\* InspectionReportGenerator.generate_batch_reports
GenerateBatchReports(fails) ==
  LET inspections == last.args.inspections
      done == BatchFrom(inspections, 1, fails,
                [ generated_files |-> << >>, attempted |-> << >>,
                  with_photo |-> {}, files |-> files, clock |-> clock ])
  IN  /\ fails \subseteq 1..Len(inspections)
      /\ done.clock <= MaxClock
      /\ UnchangedDB
      /\ files' = done.files
      /\ clock' = done.clock
      /\ last' = [ op |-> "generate_batch_reports", id |-> 0, ok |-> TRUE,
                   raised |-> FALSE,
                   args |-> [inspections |-> inspections],
                   value |-> [ generated_files |-> done.generated_files,
                               attempted |-> done.attempted,
                               with_photo |-> done.with_photo,
                               failed |-> fails ] ]

NextBatch ==
  \E fails \in SUBSET (1..MaxBatch) : GenerateBatchReports(fails)

SpecBatch == InitBatch /\ [][NextBatch]_vars

----------------------------------------------------------------------------
(* The summary report (src/report_generator.py)                            *)

\* records one summary may hold
MaxSummary == 2

\* Python dict.get(key, default)
Get(d, key, default) == IF key \in DOMAIN d THEN d[key] ELSE default

NA == << "N", "/", "A" >>

\* last inspections, in days before today: long overdue, and recent
SummaryOffsets == {-400, -10}

\* a record as get_all_inspections returns it (dict(row), keyed by column)
\* with the given last inspection
StoredRecord(id, ultima) ==
  Row(id, [BindRow(Complete) EXCEPT !.ultima_inspecao = Text(ultima)], 0, 1)

\* a record keyed as the form's inspection_data is
FormRecord(ultima) == With(Complete, "ultima", Text(ultima))

\* the records of a summary on a given day: stored rows, form records and
\* a form record of the last day of the calendar
SummaryRecords(today) ==
  { StoredRecord(1, Strftime(today + off, TRUE)) : off \in SummaryOffsets }
    \cup { FormRecord(Strftime(today + off, TRUE)) : off \in SummaryOffsets }
    \cup { FormRecord(Strftime(MaxOrdinal, TRUE)) }

\* "Contar vencidas" of _create_summary_statistics, for one record
CountsOverdue(inspection, today) ==
  LET last_inspection == Get(inspection, "ultima", Text(<< >>))
  IN  IF last_inspection.s # << >>
        THEN IsOverdue(last_inspection.s, 12, today)
        ELSE Return(FALSE)

\* _create_summary_statistics: the three counts of the statistics table
SummaryStatistics(inspections, today) ==
  LET n       == Len(inspections)
      overdue == [ i \in 1..n |-> CountsOverdue(inspections[i], today) ]
  IN  IF \E i \in 1..n : overdue[i].raised
        THEN Raise("OverflowError")
        ELSE LET total_inspections == n
                 overdue_count ==
                   Cardinality({ i \in 1..n : overdue[i].value })
             IN  Return([ total   |-> total_inspections,
                          overdue |-> overdue_count,
                          on_time |-> total_inspections - overdue_count ])

\* "Determinar status" of _create_summary_table, for one record
RowStatus(inspection, today, pad) ==
  LET last_inspection == Get(inspection, "ultima", Text(NA))
  IN  IF last_inspection.s # NA
        THEN LET status_info ==
                   GetInspectionStatus(last_inspection.s, 12, today, pad)
             IN  IF status_info.raised
                   THEN status_info
                   ELSE Return(status_info.value.message)
        ELSE Return("N/A")

\* _create_summary_table: the rows under the heading
SummaryTable(inspections, today, pad) ==
  LET n      == Len(inspections)
      status == [ i \in 1..n |-> RowStatus(inspections[i], today, pad) ]
  IN  IF \E i \in 1..n : status[i].raised
        THEN Raise("OverflowError")
        ELSE Return([ i \in 1..n |->
               [ tag      |-> Get(inspections[i], "tag", Text("N/A")).s,
                 eq_type  |-> Get(inspections[i], "tipoEquipamento", Text("N/A")).s,
                 platform |-> Get(inspections[i], "plataforma", Text("N/A")).s,
                 last_inspection |-> Get(inspections[i], "ultima", Text(NA)).s,
                 status   |-> status[i].value ] ])

\* f"relatorio_resumo_inspecoes_{timestamp}.pdf" under output_dir
SummaryPath(t) == ReportsDir \o "relatorio_resumo_inspecoes_" \o Stamp(t) \o ".pdf"

SummaryInputs ==
  UNION { { Call("input", [inspections |-> inspections], today, pad, Return(0)) :
              inspections \in UNION { [1..n -> SummaryRecords(today)] :
                                        n \in 0..MaxSummary },
              pad \in BOOLEAN } :
          today \in Todays }

InitSummary ==
  /\ inspecoes = << >>
  /\ historico_alteracoes = << >>
  /\ seqs = [inspecoes |-> 0, historico_alteracoes |-> 0]
  /\ files = {}
  /\ clock = 0
  /\ last \in SummaryInputs

\* InspectionReportGenerator.generate_summary_report; render_fails: doc.build
\* raises
GenerateSummaryReport(render_fails) ==
  LET inspections == last.args.inspections
      filepath    == SummaryPath(clock)
      statistics  == SummaryStatistics(inspections, last.today)
      table       == SummaryTable(inspections, last.today, last.pad)
  IN  /\ UnchangedDB
      /\ IF statistics.raised \/ table.raised \/ render_fails
           THEN \* except Exception: raise
                /\ UNCHANGED <<files, clock>>
                /\ last' = Call("generate_summary_report", last.args, last.today,
                                last.pad, Raise("Exception"))
           ELSE /\ clock + 1 <= MaxClock
                /\ clock' = clock + 1
                /\ files' = files \cup {filepath}
                /\ last' = Call("generate_summary_report", last.args, last.today,
                                last.pad,
                                Return([ statistics |-> statistics.value,
                                         table      |-> table.value,
                                         filepath   |-> filepath ]))

NextSummary == \E render_fails \in BOOLEAN : GenerateSummaryReport(render_fails)

SpecSummary == InitSummary /\ [][NextSummary]_vars

----------------------------------------------------------------------------
(* Vocabulary of the properties                                            *)

\* the value submitted for a column: the caller's field under its own key
Submitted(data, col) == Dget(data, KeyOf(col))

\* a field is empty when it is missing, '' or None
IsEmpty(v) == v = NULL \/ v.s = ""

\* a complete field set: every required field submitted and non-empty
IsComplete(data) == \A c \in RequiredCols : ~IsEmpty(Submitted(data, c))

\* the change-log rows a step appended
Appended == SubSeq(historico_alteracoes', Len(historico_alteracoes) + 1,
                   Len(historico_alteracoes'))

\* the data columns whose stored text differs from the submitted text
Differing(row, data) ==
  { c \in DataColSet : Str(row[c]) # Str(Submitted(data, c)) }

UniqueIds(tbl) ==
  \A i, j \in 1..Len(tbl) : i # j => tbl[i].id # tbl[j].id

SameIds(t1, t2) ==
  /\ Len(t1) = Len(t2)
  /\ \A i \in 1..Len(t1) : t1[i].id = t2[i].id

----------------------------------------------------------------------------
(* C1 - C10                                                                *)

\* C1: a successful update(id, fields) appends exactly one change-log row
\* per data column whose stored text differs from the submitted value, and
\* that row names the column and carries the stored and the submitted text.
C1_UpdateLogsEachDifference ==
  [][ \A id \in Ids, data \in Datas :
        (UpdateInspection(id, data, "none", 0) /\ last'.ok) =>
          LET old == RowById(inspecoes, id)
          IN  /\ Len(Appended) = Cardinality(Differing(old, data))
              /\ { <<Appended[i].inspecao_id, Appended[i].campo,
                     Appended[i].valor_anterior, Appended[i].valor_novo>> :
                     i \in 1..Len(Appended) }
                 = { <<id, c, Str(old[c]), Str(Submitted(data, c))>> :
                     c \in Differing(old, data) } ]_vars

\* C2: update(id, fields) right after create(fields), with the very same
\* fields, appends no change-log row.
C2_IdenticalUpdateLogsNothing ==
  [][ \A id \in Ids, data \in Datas :
        ( /\ UpdateInspection(id, data, "none", 0)
          /\ Found(inspecoes, id)
          /\ RowById(inspecoes, id) =
               Row(id, BindRow(data), RowById(inspecoes, id).created_at,
                   RowById(inspecoes, id).created_at + 1) )
        => historico_alteracoes' = historico_alteracoes ]_vars

\* C3: delete(id) of an existing record whose photo file is present returns
\* success and leaves neither the row nor the file.
C3_DeleteRemovesRowAndPhoto ==
  [][ \A id \in Ids :
        ( /\ DeleteInspection(id, "none", FALSE)
          /\ Found(inspecoes, id)
          /\ HasPhoto(RowById(inspecoes, id))
          /\ RowById(inspecoes, id).foto_path.s \in files )
        => /\ last'.ok
           /\ ~Found(inspecoes', id)
           /\ RowById(inspecoes, id).foto_path.s \notin files' ]_vars

\* C4: delete(id) of an identifier that names no record returns the failure
\* flag and changes neither table nor any photo file.
C4_DeleteUnknownFails ==
  [][ \A id \in Ids :
        (DeleteInspection(id, "none", FALSE) /\ ~Found(inspecoes, id))
        => /\ ~last'.ok
           /\ UNCHANGED <<inspecoes, historico_alteracoes, files>> ]_vars

\* C5: after clear() both tables are empty and the photo directory holds no
\* file, whatever was removed from it before the call.
C5_ClearEmptiesEverything ==
  [][ ClearAllInspections("none", {})
        => /\ ~last'.raised
           /\ inspecoes' = << >>
           /\ historico_alteracoes' = << >>
           /\ files' = {} ]_vars

\* C6: create(fields) with a required field empty or missing raises and
\* inserts no row.
C6_IncompleteCreateRejected ==
  [][ \A data \in Datas :
        (SaveInspection(data, "none") /\ ~IsComplete(data))
        => (last'.raised /\ inspecoes' = inspecoes) ]_vars

\* C7 as stated: for every complete field set, create returns an id whose
\* record, read back at once, holds exactly the submitted value in the
\* column of every submitted field.
C7_CreateThenGetReturnsSubmitted ==
  [][ \A data \in Datas :
        (SaveInspection(data, "none") /\ IsComplete(data))
        => /\ last'.ok
           /\ Found(inspecoes', last'.id)
           /\ \A c \in DataColSet :
                KeyOf(c) \in DOMAIN data =>
                  RowById(inspecoes', last'.id)[c] = data[KeyOf(c)] ]_vars

\* a text that SQLite stores as a number in a DATE column
IsNumericText(v) == v.k = "text" /\ v.s \in NumericLiterals

\* C7 (amended): the same, for the complete field sets whose two date
\* values are not numeric literals.
C7_CreateThenGetReturnsSubmittedDates ==
  [][ last'.op = "save" =>
        \A data \in Datas :
          ( /\ SaveInspection(data, "none")
            /\ IsComplete(data)
            /\ \A c \in DateCols : ~IsNumericText(Submitted(data, c)) )
          => /\ last'.ok
             /\ Found(inspecoes', last'.id)
             /\ \A c \in DataColSet :
                  KeyOf(c) \in DOMAIN data =>
                    RowById(inspecoes', last'.id)[c] = data[KeyOf(c)] ]_vars

\* a complete field set with proper dates has just been created
C7_Witness ==
  /\ last.op = "save" /\ last.ok
  /\ Found(inspecoes, last.id)
  /\ \A c \in RequiredCols : ~IsEmpty(RowById(inspecoes, last.id)[c])
  /\ \A c \in DateCols : RowById(inspecoes, last.id)[c].k = "text"

\* C8: a mutation one of whose steps raises leaves both tables as they were
\* and does not report success.
C8_FailedMutationRollsBack ==
  [][ /\ \A data \in Datas :
           SaveInspection(data, "db") =>
             (UNCHANGED <<inspecoes, historico_alteracoes>> /\ ~last'.ok)
      /\ \A id \in Ids, data \in Datas, fault \in {"db", "log", "log_rb"} :
           \A k \in LogFaultPoints(inspecoes, id, data, fault) :
             UpdateInspection(id, data, fault, k) =>
               (UNCHANGED <<inspecoes, historico_alteracoes>> /\ ~last'.ok)
      /\ \A id \in Ids, rmfail \in BOOLEAN :
           DeleteInspection(id, "db", rmfail) =>
             (UNCHANGED <<inspecoes, historico_alteracoes>> /\ ~last'.ok)
      /\ \A rmfails \in SUBSET files :
           ClearAllInspections("db", rmfails) =>
             (UNCHANGED <<inspecoes, historico_alteracoes>> /\ ~last'.ok)
    ]_vars

\* C9: every stored record has a non-empty value in each required field.
C9_RequiredFieldsNonEmpty ==
  \A i \in 1..Len(inspecoes) :
    \A c \in RequiredCols : ~IsEmpty(inspecoes[i][c])

\* C10: no two stored records share an identifier, and update leaves the
\* identifier of every record as it was.
C10_IdsUniqueAndImmutable ==
  [][ /\ UniqueIds(inspecoes)
      /\ UniqueIds(inspecoes')
      /\ last'.op = "update" => SameIds(inspecoes, inspecoes') ]_vars

\* an update has succeeded while two records were stored
C10_Witness ==
  /\ last.op = "update" /\ last.ok
  /\ Len(inspecoes) >= 2

----------------------------------------------------------------------------
(* C11 - C20                                                               *)

\* the change-log row of table hist with identifier id
LogRowById(hist, id) == hist[CHOOSE i \in 1..Len(hist) : hist[i].id = id]

LogIdsOf(hist) == { hist[i].id : i \in 1..Len(hist) }

\* C11: the change log is append-only: a row that stays in the log is never
\* modified, a row leaves the log only in a clear() or in the deletion of
\* the record it references, and create, update and the file operations
\* keep every existing row, in order, in front of what they append.
C11_ChangeLogAppendOnly ==
  [][ /\ \A id \in LogIdsOf(historico_alteracoes) \cap LogIdsOf(historico_alteracoes') :
           LogRowById(historico_alteracoes', id) = LogRowById(historico_alteracoes, id)
      /\ \A id \in LogIdsOf(historico_alteracoes) \ LogIdsOf(historico_alteracoes') :
           \/ last'.op = "clear"
           \/ /\ last'.op = "delete"
              /\ LogRowById(historico_alteracoes, id).inspecao_id
                   \in IdsOf(inspecoes) \ IdsOf(inspecoes')
      /\ last'.op \notin {"clear", "delete"} =>
           /\ Len(historico_alteracoes') >= Len(historico_alteracoes)
           /\ SubSeq(historico_alteracoes', 1, Len(historico_alteracoes))
                = historico_alteracoes ]_vars

\* a record has been created while the change log held rows
C11_Witness ==
  /\ last.op = "save" /\ last.ok
  /\ historico_alteracoes # << >>

\* C12: on the same day, is_overdue returns true for a date and a validity
\* period exactly when get_days_until_due returns a negative number for
\* them.
C12_OverdueIffNegativeDays ==
  /\ last.op = "is_overdue" =>
       LET days == GetDaysUntilDue(last.args.date_str, last.args.months, last.today)
       IN  (~last.raised /\ last.value) <=> (~days.raised /\ days.value < 0)
  /\ last.op = "get_days_until_due" =>
       LET overdue == IsOverdue(last.args.date_str, last.args.months, last.today)
       IN  (~last.raised /\ last.value < 0) <=> (~overdue.raised /\ overdue.value)

\* is_overdue has returned true on the first day after the due date
C12_Witness ==
  /\ last.op = "is_overdue" /\ ~last.raised /\ last.value
  /\ ~Strptime(last.args.date_str).raised
  /\ GetDaysUntilDue(last.args.date_str, last.args.months, last.today).value = -1

\* the text is a date for strptime and its due date is a day of the calendar
HasDueDate(date_str, months) ==
  /\ ~Strptime(date_str).raised
  /\ ~AddDays(Strptime(date_str).value, months * 30).raised

\* C13: get_inspection_status classifies a date by its days until due d:
\* d < 0 is overdue, 0 <= d <= 30 is warning, 31 <= d <= 90 is attention and
\* d > 90 is ok.
C13_StatusClassification ==
  ( /\ last.op = "get_inspection_status"
    /\ HasDueDate(last.args.date_str, last.args.months) )
  => LET d == GetDaysUntilDue(last.args.date_str, last.args.months,
                              last.today).value
     IN  /\ ~last.raised
         /\ d < 0              => last.value.status = "overdue"
         /\ (0 <= d /\ d <= 30)  => last.value.status = "warning"
         /\ (31 <= d /\ d <= 90) => last.value.status = "attention"
         /\ d > 90             => last.value.status = "ok"
         /\ d = -1 => last.value.status = "overdue"
         /\ d \in {0, 30}  => last.value.status = "warning"
         /\ d \in {31, 90} => last.value.status = "attention"
         /\ d = 91 => last.value.status = "ok"

\* a date due in exactly 30 days has been classified
C13_Witness ==
  /\ last.op = "get_inspection_status" /\ ~last.raised
  /\ HasDueDate(last.args.date_str, last.args.months)
  /\ GetDaysUntilDue(last.args.date_str, last.args.months, last.today).value = 30
  /\ last.value.status = "warning"

\* C14: for every text, empty, well-formed or malformed,
\* get_inspection_status returns without raising, the status it returns is
\* one of unknown, overdue, warning, attention and ok, and it is unknown for
\* the empty text.
C14_StatusTotalOverClasses ==
  last.op = "get_inspection_status" =>
    /\ ~last.raised
    /\ last.value.status \in {"unknown", "overdue", "warning", "attention", "ok"}
    /\ last.args.date_str = << >> => last.value.status = "unknown"

\* a text of the form YYYY-MM-DD
IsIsoText(t) ==
  /\ Len(t) = 10
  /\ \A i \in {1, 2, 3, 4, 6, 7, 9, 10} : IsDigit(t[i])
  /\ t[5] = "-" /\ t[8] = "-"

\* C15: for a date and a validity period in months,
\* calculate_next_inspection_date returns, in the form YYYY-MM-DD, the day
\* months*30 days after the date, "2025-03-10" for "2024-03-15" and 12
\* months, and get_inspection_status reports that same text as next due
\* date.
C15_NextDateIsThirtyDayMonths ==
  ( /\ last.op = "calculate_next_inspection_date"
    /\ ~Strptime(last.args.date_str).raised )
  => /\ ~last.raised
     /\ IsIsoText(last.value)
     /\ Strptime(last.value)
          = Return(Strptime(last.args.date_str).value + last.args.months * 30)
     /\ ( /\ last.args.date_str
               = << "2", "0", "2", "4", "-", "0", "3", "-", "1", "5" >>
          /\ last.args.months = 12 )
        => last.value = << "2", "0", "2", "5", "-", "0", "3", "-", "1", "0" >>
     /\ LET status == GetInspectionStatus(last.args.date_str, last.args.months,
                                          last.today, last.pad)
        IN  ~status.raised /\ status.value.next_inspection_date = last.value

\* a well-formed date: a text of the form YYYY-MM-DD that names a day of
\* the calendar
IsWellFormedDate(t) == IsIsoText(t) /\ ~Strptime(t).raised

\* C16: validate_inspection_date accepts a well-formed date d exactly when
\* today - 30 days <= d <= today; every other text, empty or malformed, is
\* rejected; a rejection carries a reason and nothing is raised.
C16_InspectionDateWindow ==
  last.op = "validate_inspection_date" =>
    /\ ~last.raised
    /\ IF IsWellFormedDate(last.args.date_str)
         THEN last.value.valid <=>
                LET d == Strptime(last.args.date_str).value
                IN  last.today - 30 <= d /\ d <= last.today
         ELSE ~last.value.valid
    /\ ~last.value.valid => last.value.message # ""

\* the day ten calendar years before a day
TenYearsBefore(ord) ==
  LET d == FromOrdinal(ord)
      day == IF d.day > DaysInMonth(d.year - 10, d.month)
               THEN DaysInMonth(d.year - 10, d.month) ELSE d.day
  IN  ToOrdinal(d.year - 10, d.month, day)

\* C17: validate_last_inspection_date accepts a well-formed date d exactly
\* when d is not after today and not before the day ten years before
\* today; every other text is rejected; a rejection carries a reason and
\* nothing is raised.
C17_LastInspectionDateWindow ==
  last.op = "validate_last_inspection_date" =>
    /\ ~last.raised
    /\ IF IsWellFormedDate(last.args.date_str)
         THEN last.value.valid <=>
                LET d == Strptime(last.args.date_str).value
                IN  TenYearsBefore(last.today) <= d /\ d <= last.today
         ELSE ~last.value.valid
    /\ ~last.value.valid => last.value.message # ""

\* C18: validate_date_range accepts two well-formed dates exactly when the
\* start is not after the end and the end is at most 365 days after the
\* start; a pair with an empty or malformed text is rejected; a rejection
\* carries a reason.
C18_DateRangeWindow ==
  last.op = "validate_date_range" =>
    /\ ~last.raised
    /\ IF IsWellFormedDate(last.args.start_date)
            /\ IsWellFormedDate(last.args.end_date)
         THEN last.value.valid <=>
                LET start == Strptime(last.args.start_date).value
                    end   == Strptime(last.args.end_date).value
                IN  start <= end /\ end - start <= 365
         ELSE ~last.value.valid
    /\ ~last.value.valid => last.value.message # ""

\* the reasons the two date checks give for the dates of a form, when they
\* reject a date that was typed in
DateReasons(form, today) ==
  LET data   == Strip(form["data_var"])
      ultima == Strip(form["ultima_var"])
  IN  { ValidateInspectionDate(data, today).value.message :
          x \in { y \in {1} : /\ data # << >>
                              /\ ~ValidateInspectionDate(data, today).value.valid } }
      \cup
      { ValidateLastInspectionDate(ultima, today).value.message :
          x \in { y \in {1} : /\ ultima # << >>
                              /\ ~ValidateLastInspectionDate(ultima, today).value.valid } }

\* no field of the form is blank but, possibly, the notes
AllFilled(form) ==
  \A f \in FormFields \ {"observacoes_text"} : Strip(form[f]) # << >>

\* C19: pressing save on a filled form whose date of inspection or date of
\* last inspection is malformed, in the future or outside its window applies
\* the date checks: the save is blocked with the reason one of them gives,
\* no record is created and no report is written.
C19_BadDatesBlockSave ==
  [][ ( /\ last'.op = "form_save"
        /\ AllFilled(last.args.form)
        /\ DateReasons(last.args.form, last.today) # {} )
      => /\ ~last'.ok
         /\ last'.value.message \in DateReasons(last.args.form, last.today)
         /\ UNCHANGED <<inspecoes, files>> ]_vars

\* C20: generate_batch_reports attempts every record of the list, in order,
\* whatever failed before it, and returns as many paths as there are records
\* whose rendering did not fail, each the path of its record's report.
C20_BatchSkipsFailures ==
  last.op = "generate_batch_reports" =>
    LET n  == Len(last.args.inspections)
        ok == { i \in 1..n : i \notin last.value.failed }
    IN  /\ ~last.raised
        /\ last.value.attempted = [ i \in 1..n |-> i ]
        /\ Len(last.value.generated_files) = Cardinality(ok)
        /\ \A k \in 1..Len(last.value.generated_files) :
             \E i \in ok :
               /\ Cardinality({ j \in ok : j <= i }) = k
               /\ \E t \in 0..MaxClock :
                    last.value.generated_files[k]
                      = ReportPath(last.args.inspections[i].tag.s, t)

\* a batch of three whose second record failed has returned two paths
C20_Witness ==
  /\ last.op = "generate_batch_reports"
  /\ Len(last.args.inspections) = 3
  /\ last.value.failed = {2}
  /\ Len(last.value.generated_files) = 2

----------------------------------------------------------------------------
(* C21 - C30                                                               *)

\* the records of a batch whose stored photo path names no file
InvalidPhotos(inspections, fs) ==
  { i \in 1..Len(inspections) :
      HasPhoto(inspections[i]) /\ inspections[i].foto_path.s \notin fs }

\* C21: a batch of N records of which exactly one has an invalid photo path
\* (and no other record fails) is not aborted, fails for that one record
\* and returns N - 1 paths.
C21_InvalidPhotoFailsOneReport ==
  last.op = "generate_batch_reports" =>
    LET inspections == last.args.inspections
        bad         == InvalidPhotos(inspections, files)
    IN  (Cardinality(bad) = 1 /\ last.value.failed \subseteq bad) =>
          /\ ~last.raised
          /\ last.value.attempted = [ i \in 1..Len(inspections) |-> i ]
          /\ last.value.failed = bad
          /\ Len(last.value.generated_files) = Len(inspections) - 1

\* the records of a summary that come from the record table
IsStoredRecord(inspection) == "ultima_inspecao" \in DOMAIN inspection

\* C22: in the summary of records listed from the store, total = overdue +
\* on-time, the overdue count is the number of records whose stored last
\* inspection is overdue under a validity of 12 months, and each table row
\* shows the status computed from the record's stored last inspection.
C22_SummaryCountsStoredDates ==
  ( /\ last.op = "generate_summary_report"
    /\ ~last.raised
    /\ \A i \in 1..Len(last.args.inspections) :
         IsStoredRecord(last.args.inspections[i]) ) =>
    LET inspections == last.args.inspections
        n           == Len(inspections)
        stored(i)   == inspections[i].ultima_inspecao.s
    IN  /\ last.value.statistics.total = n
        /\ last.value.statistics.total
             = last.value.statistics.overdue + last.value.statistics.on_time
        /\ last.value.statistics.overdue
             = Cardinality({ i \in 1..n :
                              IsOverdue(stored(i), 12, last.today).value = TRUE })
        /\ \A i \in 1..n :
             last.value.table[i].status
               = GetInspectionStatus(stored(i), 12, last.today, last.pad).value.message

\* C23: a successful photo ingest stores its output under a name no earlier
\* ingest produced: the file it writes did not exist before, so no stored
\* photo is overwritten.
C23_IngestNeverOverwrites ==
  [][ (last'.op = "ingest" /\ last'.ok) =>
        \E new_path \in files' : new_path \notin files ]_vars

\* C24: when os.remove of the photo raises during the delete of an existing
\* record, the record's row is removed all the same and delete returns
\* success.
C24_RemovalErrorSwallowed ==
  [][ \A id \in IdsOf(inspecoes) :
        DeleteInspection(id, "none", TRUE) =>
          (last'.ok /\ id \notin IdsOf(inspecoes')) ]_vars

\* C25: update(id, fields) with an identifier that names no stored record
\* returns the failure flag, changes no record and appends no change-log
\* row.
C25_UpdateUnknownFails ==
  [][ last'.op = "update" =>
        \A id \in Ids \ IdsOf(inspecoes), data \in Datas :
          UpdateInspection(id, data, "none", 0) =>
            /\ ~last'.ok
            /\ ~last'.raised
            /\ UNCHANGED <<inspecoes, historico_alteracoes>> ]_vars

\* an update has failed on a store whose records have all been deleted
C25_Witness ==
  /\ last.op = "update"
  /\ ~last.ok
  /\ inspecoes = << >>
  /\ seqs.inspecoes >= 1

\* C26: in every reachable state every change-log row references an
\* inspection record that is in the record table.
C26_ChangeLogReferencesExist ==
  \A i \in 1..Len(historico_alteracoes) :
    historico_alteracoes[i].inspecao_id \in IdsOf(inspecoes)

\* a delete has removed a record while the change log holds rows
C26_Witness ==
  /\ last.op = "delete"
  /\ last.ok
  /\ Len(inspecoes) < seqs.inspecoes
  /\ historico_alteracoes # << >>

\* C27: a delete(id) or clear() that returns failure has no filesystem
\* effect: every photo file that existed before the call exists after it.
C27_FailedDeleteKeepsFiles ==
  [][ (last'.op \in {"delete", "clear"} /\ ~last'.ok) =>
        files \subseteq files' ]_vars

C29_StatusAgreesWithFunctions ==
  last.op = "get_inspection_status" =>
    LET date_str == last.args.date_str
        overdue  == IsOverdue(date_str, last.args.months, last.today)
        days     == GetDaysUntilDue(date_str, last.args.months, last.today)
    IN  /\ last.raised = overdue.raised
        /\ last.raised = days.raised
        /\ ~last.raised =>
             /\ last.value.is_overdue = overdue.value
             /\ last.value.days_until_due = days.value
        /\ (date_str = << >> \/ Strptime(date_str).raised) =>
             /\ ~last.raised
             /\ last.value.is_overdue = FALSE
             /\ last.value.days_until_due = 0

\* the status of a date whose validity ended yesterday has been computed
C29_Witness ==
  /\ last.op = "get_inspection_status"
  /\ ~last.raised
  /\ last.value.is_overdue
  /\ last.value.days_until_due = -1

\* what a successful update of record id with the field set data leaves:
\* the record holds the submitted value in every data column ('' for a
\* missing key) and a later update timestamp, keeps its identifier and its
\* creation timestamp, and every other record is as it was
ReplacedBy(id, data) ==
  /\ Len(inspecoes') = Len(inspecoes)
  /\ \A i \in 1..Len(inspecoes) :
       IF inspecoes[i].id = id
         THEN /\ inspecoes'[i].id = id
              /\ inspecoes'[i].created_at = inspecoes[i].created_at
              /\ inspecoes'[i].updated_at > inspecoes[i].updated_at
              /\ \A c \in DataColSet : inspecoes'[i][c] = Submitted(data, c)
         ELSE inspecoes'[i] = inspecoes[i]

\* C30: update(id, fields) is a full replacement: after a successful update
\* every data column of the record holds the value submitted ('' for a key
\* absent from fields), the update timestamp is rewritten, and the record's
\* identifier and creation timestamp and every other record are unchanged.
C30_UpdateReplacesRecord ==
  [][ (last'.op = "update" /\ last'.ok) =>
        \A id \in IdsOf(inspecoes), data \in Datas :
          UpdateInspection(id, data, "none", 0) => ReplacedBy(id, data) ]_vars

\* C30 (amended): the same, for the field sets whose two date values are
\* not numeric literals.
C30_UpdateReplacesRecordDates ==
  [][ (last'.op = "update" /\ last'.ok) =>
        \A id \in IdsOf(inspecoes), data \in Datas :
          ( /\ \A c \in DateCols : ~IsNumericText(Submitted(data, c))
            /\ UpdateInspection(id, data, "none", 0) )
            => ReplacedBy(id, data) ]_vars

\* an update has emptied the tag of one record while another is stored
C30_Witness ==
  /\ last.op = "update"
  /\ last.ok
  /\ Len(inspecoes) >= 2
  /\ \E i \in 1..Len(inspecoes) :
       /\ inspecoes[i].updated_at > inspecoes[i].created_at + 1
       /\ inspecoes[i].tag = Text("")
       /\ \A c \in DateCols : inspecoes[i][c].k = "text"
       /\ \E h \in 1..Len(historico_alteracoes) :
            /\ historico_alteracoes[h].inspecao_id = inspecoes[i].id
            /\ historico_alteracoes[h].campo = "tag"
            /\ historico_alteracoes[h].valor_novo = ""

====
